---- MODULE Spec2Model ----
(***************************************************************************)
(* Model of bruins_app.py: the load-time cleaning of the game table        *)
(* (lines 100-174), the season filter (176-188), the three query functions *)
(* (197-260) and the page blocks that call them and render their results   *)
(* (273-402).                                                              *)
(*                                                                         *)
(* Text is modelled as a sequence of one-character strings, so that the    *)
(* substring tests of the code ('W' in outcome, str.contains('Loss')) are  *)
(* computed and not assumed.  A missing CSV cell is NaN, a missing date    *)
(* NaT.  Percentages are kept in hundredths (33.33 is 3333).               *)
(***************************************************************************)
EXTENDS Integers, Sequences, FiniteSets

VARIABLES raw, pc, df, start_season, end_season, df_filtered, today, call, result, shown

vars == <<raw, pc, df, start_season, end_season, df_filtered, today, call, result, shown>>

(* ---------------------------- bounds ----------------------------------- *)

\* Longest text of an outcome-letter or OT/SO cell drawn in InitNormalize.
MaxLen == 2

\* Largest number of rows of a raw table drawn in Init.
MaxRows == 3

(* ---------------------------- values ----------------------------------- *)

\* A missing cell of a text column (pandas NaN): no text equals it.
NaN == <<"NaN">>

\* A missing date (pandas NaT).
NaT == <<0, 0, 0>>

\* Python None.
None == <<"None">>

\* Before the first block of a page run: no query called, no result yet.
NoCall == [fn |-> "none", key |-> None, opponent |-> None]
NoResult == [kind |-> "nothing", fn |-> "none"]

(* ---------------------------- text ------------------------------------- *)

\* sub in s, for Python str; also Series.str.contains(sub) on one value.
Contains(sub, s) ==
    \E i \in 0..(Len(s) - Len(sub)) : SubSeq(s, i + 1, i + Len(sub)) = sub

RECURSIVE lstrip(_)
lstrip(s) == IF s # <<>> /\ Head(s) = " " THEN lstrip(Tail(s)) ELSE s

RECURSIVE rstrip(_)
rstrip(s) ==
    IF s # <<>> /\ s[Len(s)] = " " THEN rstrip(SubSeq(s, 1, Len(s) - 1)) ELSE s

\* str.strip()
strip(s) == rstrip(lstrip(s))

\* Series.fillna('') on one cell.
fillna(c) == IF c = NaN THEN <<>> ELSE c

\* Series == value on one cell: a missing value equals nothing, itself included.
Eq(a, b) == a # NaN /\ b # NaN /\ a = b

\* The labels standardize_outcome returns.
Win == <<"W", "i", "n">>
WinOT == <<"W", "i", "n", " ", "O", "T">>
WinSO == <<"W", "i", "n", " ", "S", "O">>
Loss == <<"L", "o", "s", "s">>
LossOT == <<"L", "o", "s", "s", " ", "O", "T">>
LossSO == <<"L", "o", "s", "s", " ", "S", "O">>
Tie == <<"T", "i", "e">>
Unknown == <<"U", "n", "k", "n", "o", "w", "n">>

\* A plausible slip: the overtime test reads only the letter "O".
standardize_outcome_LooseOT(outcome) ==
    LET o == strip(outcome) IN
    IF Contains(<<"W">>, o)
    THEN IF Contains(<<"O">>, o) THEN WinOT
         ELSE IF Contains(<<"S", "O">>, o) THEN WinSO
         ELSE Win
    ELSE IF Contains(<<"L">>, o)
    THEN IF Contains(<<"O">>, o) THEN LossOT
         ELSE IF Contains(<<"S", "O">>, o) THEN LossSO
         ELSE Loss
    ELSE IF Contains(<<"T">>, o) THEN Tie
    ELSE Unknown

standardize_outcome(outcome) ==
    LET o == strip(outcome) IN
    IF Contains(<<"W">>, o)
    THEN IF Contains(<<"O", "T">>, o) THEN WinOT
         ELSE IF Contains(<<"S", "O">>, o) THEN WinSO
         ELSE Win
    ELSE IF Contains(<<"L">>, o)
    THEN IF Contains(<<"O", "T">>, o) THEN LossOT
         ELSE IF Contains(<<"S", "O">>, o) THEN LossSO
         ELSE Loss
    ELSE IF Contains(<<"T">>, o) THEN Tie
    ELSE Unknown

\* df['Outcome'].fillna('') + df['OT/SO'].fillna(''), then standardize_outcome.
MergeOutcome(letter, marker) == standardize_outcome(fillna(letter) \o fillna(marker))

\* lambda x: 1 if 'Win' in x else 0
WinFlag(outcome) == IF Contains(Win, outcome) THEN 1 ELSE 0

(* ---------------------------- dates ------------------------------------ *)

IsLeap(y) == (y % 4 = 0 /\ y % 100 # 0) \/ y % 400 = 0

DaysInMonth(y, m) ==
    IF m = 2 THEN (IF IsLeap(y) THEN 29 ELSE 28)
    ELSE IF m \in {4, 6, 9, 11} THEN 30 ELSE 31

\* A date cell <<y, m, d>> that pd.to_datetime accepts.
Parseable(c) == c[2] \in 1..12 /\ c[3] \in 1..DaysInMonth(c[1], c[2])

\* pd.to_datetime on one cell that holds a missing value or a parseable date.
to_datetime(c) == IF c = NaN THEN NaT ELSE c

Digit(n) == <<"0", "1", "2", "3", "4", "5", "6", "7", "8", "9">>[n + 1]

\* Two-digit, zero-padded (%m, %d, :02d).
Pad2(n) == <<Digit(n \div 10), Digit(n % 10)>>

\* f"{month:02d}-{day:02d}"
FormatMMDD(m, d) == Pad2(m) \o <<"-">> \o Pad2(d)

\* .dt.strftime('%m-%d') on one value.
strftime_mm_dd(date) == IF date = NaT THEN NaN ELSE FormatMMDD(date[2], date[3])

days_order == <<"Monday", "Tuesday", "Wednesday", "Thursday", "Friday", "Saturday", "Sunday">>

MonthShift == <<0, 3, 2, 5, 0, 3, 5, 1, 4, 6, 2, 4>>

\* Weekday of a Gregorian date, 0 for Sunday.
Weekday(date) ==
    LET y == IF date[2] < 3 THEN date[1] - 1 ELSE date[1] IN
    (y + (y \div 4) - (y \div 100) + (y \div 400) + MonthShift[date[2]] + date[3]) % 7

\* .dt.day_name() on one value: a text of one word, or missing.
day_name(date) ==
    IF date = NaT THEN NaN
    ELSE << <<"Sunday", "Monday", "Tuesday", "Wednesday", "Thursday", "Friday",
               "Saturday">>[Weekday(date) + 1] >>

(* ---------------------------- cleaning --------------------------------- *)

\* The cleaned row of one raw row whose date cell is missing or parseable.
CleanRow(r) ==
    LET date == to_datetime(r.Date)
        outcome == MergeOutcome(r.Outcome, r.OTSO)
    IN [Season |-> r.Season,
        Date |-> date,
        MMDD |-> strftime_mm_dd(date),
        DayOfWeek |-> day_name(date),
        Opponent |-> r.Opponent,
        Outcome |-> outcome,
        Win |-> WinFlag(outcome)]

\* The canonical table of a raw table.
CleanTable(t) == [i \in 1..Len(t) |-> CleanRow(t[i])]

\* pd.to_datetime raises on the column.
DateError(t) == \E i \in 1..Len(t) : t[i].Date # NaN /\ ~Parseable(t[i].Date)

(* ---------------------------- queries ---------------------------------- *)

\* if opponent: (None and '' are false, every other value is true, NaN included)
Truthy(opponent) == opponent # None /\ opponent # <<>>

RECURSIVE SumWin(_)
\* games['Win'].sum()
SumWin(games) == IF games = <<>> THEN 0 ELSE Head(games).Win + SumWin(Tail(games))

\* n/d rounded to the nearest integer, halves to the even neighbour.
RoundDiv(n, d) ==
    LET q == n \div d
        r == n % d
    IN IF 2 * r < d THEN q
       ELSE IF 2 * r > d THEN q + 1
       ELSE IF q % 2 = 0 THEN q ELSE q + 1

\* round((wins / total) * 100, 2), and (wins / games_played * 100).round(2) of
\* the per-day table, in hundredths.
WinPercentage(wins, total) == RoundDiv(wins * 10000, total)

\* A slip: ties counted like losses, with str.contains, here of 'T'.
CountTies_Contains(games) == Len(SelectSeq(games, LAMBDA g : Contains(<<"T">>, g.Outcome)))

\* len(games[games['Outcome'] == 'Tie'])
CountTies(games) == Len(SelectSeq(games, LAMBDA g : Eq(g.Outcome, Tie)))

\* A slip: losses counted like ties, with ==, so Loss OT and Loss SO are missed.
CountLosses_Exact(games) == Len(SelectSeq(games, LAMBDA g : Eq(g.Outcome, Loss)))

\* len(games[games['Outcome'].str.contains('Loss')])
CountLosses(games) == Len(SelectSeq(games, LAMBDA g : Contains(Loss, g.Outcome)))

\* The body both record functions share once the games are selected.
RecordOf(fn, games) ==
    IF games = <<>> THEN [kind |-> "none", fn |-> fn]
    ELSE [kind |-> "ok",
          fn |-> fn,
          TotalGames |-> Len(games),
          Wins |-> SumWin(games),
          Losses |-> CountLosses(games),
          Ties |-> CountTies(games),
          WinPercentage |-> WinPercentage(SumWin(games), Len(games))]

\* A slip: the opponent is never looked at.
calculate_record_on_date_AnyOpponent(d, mm_dd, opponent) ==
    RecordOf("calculate_record_on_date", SelectSeq(d, LAMBDA g : Eq(g.MMDD, mm_dd)))

calculate_record_on_date(d, mm_dd, opponent) ==
    RecordOf("calculate_record_on_date",
             IF Truthy(opponent)
             THEN SelectSeq(d, LAMBDA g : Eq(g.MMDD, mm_dd) /\ Eq(g.Opponent, opponent))
             ELSE SelectSeq(d, LAMBDA g : Eq(g.MMDD, mm_dd)))

calculate_record_on_day(d, day, opponent) ==
    RecordOf("calculate_record_on_day",
             IF Truthy(opponent)
             THEN SelectSeq(d, LAMBDA g : Eq(g.DayOfWeek, <<day>>) /\ Eq(g.Opponent, opponent))
             ELSE SelectSeq(d, LAMBDA g : Eq(g.DayOfWeek, <<day>>)))

(* ---------------------------- weekdays --------------------------------- *)

\* The group keys of groupby('DayOfWeek') come out sorted (sort=True).
SortedDayKeys == <<"Friday", "Monday", "Saturday", "Sunday", "Thursday", "Tuesday", "Wednesday">>

\* NaN in a numeric column of the per-day table.
NoValue == -1

\* groupby('DayOfWeek').agg(count, sum) with the percentage column: one row per
\* weekday that occurs, in key order; rows with a missing key are dropped.
GroupByDay(games) ==
    LET keys == SelectSeq(SortedDayKeys,
                          LAMBDA k : \E i \in 1..Len(games) : Eq(games[i].DayOfWeek, <<k>>))
        OfDay(k) == SelectSeq(games, LAMBDA g : Eq(g.DayOfWeek, <<k>>))
    IN [j \in 1..Len(keys) |->
           [DayOfWeek |-> keys[j],
            games_played |-> Len(OfDay(keys[j])),
            wins |-> SumWin(OfDay(keys[j])),
            WinPercentage |-> WinPercentage(SumWin(OfDay(keys[j])), Len(OfDay(keys[j])))]]

\* .reindex(order): one row per label of order, all-NaN where the label is new.
Reindex(stats, order) ==
    [i \in 1..Len(order) |->
        IF \E j \in 1..Len(stats) : stats[j].DayOfWeek = order[i]
        THEN stats[CHOOSE j \in 1..Len(stats) : stats[j].DayOfWeek = order[i]]
        ELSE [DayOfWeek |-> order[i], games_played |-> NoValue, wins |-> NoValue,
              WinPercentage |-> NoValue]]

\* .dropna(subset=['games_played'])
DropNa(stats) == SelectSeq(stats, LAMBDA r : r.games_played # NoValue)

\* The per-day table of lines 241-249.
WinStatsByDay(games) == DropNa(Reindex(GroupByDay(games), days_order))

\* The rows that sort_values('games_played', ascending=False) may put first:
\* the sort is the default quicksort, which is not stable, so among rows with
\* equal games_played any may lead.
FirstBySortDescending(rows) ==
    {r \in {rows[i] : i \in 1..Len(rows)} :
        \A i \in 1..Len(rows) : rows[i].games_played <= r.games_played}

\* The extreme value of the percentage column of a non-empty table.
ColumnMax(stats) ==
    CHOOSE v \in {stats[i].WinPercentage : i \in 1..Len(stats)} :
        \A i \in 1..Len(stats) : stats[i].WinPercentage <= v

ColumnMin(stats) ==
    CHOOSE v \in {stats[i].WinPercentage : i \in 1..Len(stats)} :
        \A i \in 1..Len(stats) : stats[i].WinPercentage >= v

\* Every value best_and_worst_day_against_opponent can return or raise.
best_and_worst_day_against_opponent(d, opponent) ==
    LET opponent_games == SelectSeq(d, LAMBDA g : Eq(g.Opponent, opponent))
        win_stats_by_day == WinStatsByDay(opponent_games)
        best_days == SelectSeq(win_stats_by_day,
                          LAMBDA r : r.WinPercentage = ColumnMax(win_stats_by_day))
        worst_days == SelectSeq(win_stats_by_day,
                           LAMBDA r : r.WinPercentage = ColumnMin(win_stats_by_day))
    IN IF opponent_games = <<>>
       THEN {[kind |-> "none", fn |-> "best_and_worst_day_against_opponent"]}
       ELSE IF win_stats_by_day = <<>>
       THEN {[kind |-> "raise", fn |-> "best_and_worst_day_against_opponent",
              error |-> "IndexError"]}
       ELSE {[kind |-> "ok", fn |-> "best_and_worst_day_against_opponent",
              best |-> b, worst |-> w, table |-> win_stats_by_day] :
                b \in FirstBySortDescending(best_days),
                w \in FirstBySortDescending(worst_days)}

(* ---------------------------- inputs ----------------------------------- *)

Montreal == <<"Montreal Canadiens">>
Toronto == <<"Toronto Maple Leafs">>

RawRow(season, date, opponent, letter, marker) ==
    [Season |-> season, Date |-> date, Opponent |-> opponent, Outcome |-> letter,
     OTSO |-> marker]

\* The CSV lines the raw tables of Init are made of: wins, losses and a tie on
\* 01-14 of two seasons, overtime and shootout games on 02-03, a game with no
\* result yet, a line with no date and a line with no opponent.
SampleRows ==
    {RawRow(2020, <<2021, 1, 14>>, Montreal, <<"W">>, NaN),
     RawRow(2021, <<2022, 1, 14>>, Montreal, <<"L">>, NaN),
     RawRow(2021, <<2022, 1, 14>>, Toronto, <<"T">>, NaN),
     RawRow(2020, <<2021, 2, 3>>, Montreal, <<"L">>, <<"O", "T">>),
     RawRow(2020, <<2021, 2, 3>>, Toronto, <<"W">>, <<"S", "O">>),
     RawRow(2021, <<2022, 1, 14>>, Montreal, NaN, NaN),
     RawRow(2021, NaN, Montreal, <<"W">>, NaN),
     RawRow(2020, <<2021, 1, 14>>, NaN, <<"L">>, NaN)}

\* The raw tables of 1..MaxRows sample lines, in every order (a file with a
\* header and no line is left out).
RawTables == UNION {[1..n -> SampleRows] : n \in 1..MaxRows}

\* The characters of outcome-letter cells, and of OT/SO cells.
LetterChars == {"W", "L", "T", "O", "S", " "}
MarkerChars == {"O", "T", "S"}

\* A cell of a text column: missing, or a text of 1..n of the characters.
Cells(chars, n) == {NaN} \cup UNION {[1..k -> chars] : k \in 1..n}

\* One-line raw tables with every letter and marker cell, a date cell that is
\* missing, parseable or not, and an opponent cell that is there or not.
OneLineTables ==
    {<<RawRow(2020, date, opponent, letter, marker)>> :
        date \in {NaN, <<2021, 1, 14>>, <<2021, 2, 30>>},
        opponent \in {NaN, Montreal},
        letter \in Cells(LetterChars, MaxLen),
        marker \in Cells(MarkerChars, MaxLen)}

\* The dates the clock can show when the page runs.
Todays == {<<2021, 1, 14>>, <<2021, 2, 3>>, <<2020, 2, 29>>}

\* The leap year whose month lengths bound the day box.
year_for_monthrange == 2020

\* The months and days picked in the date explorer.
ExploreMonths == {1, 2}
ExploreDays == {3, 14}

(* ---------------------------- page ------------------------------------- *)

\* sorted(df['Season'].unique()), as a set: the options of both select boxes.
Seasons(d) == {d[i].Season : i \in 1..Len(d)}

\* df[(df['Season'] >= start) & (df['Season'] <= end)].reset_index(drop=True)
SeasonFilter(d, start, end) == SelectSeq(d, LAMBDA g : g.Season >= start /\ g.Season <= end)

\* df_filtered['Opponent'].unique(), as a set (a missing opponent is one value).
UniqueOpponents(d) == {d[i].Opponent : i \in 1..Len(d)}

\* sorted() of the unique opponents raises TypeError when it compares a missing
\* value (a float) with a name (a str).
SortedRaises(d) == NaN \in UniqueOpponents(d) /\ UniqueOpponents(d) # {NaN}

\* if record: (a summary dict is true, None is false)
Rendered(r) == IF r.kind = "ok" THEN "table" ELSE "message"

TypeInit ==
    /\ pc = "load"
    /\ df = <<>>
    /\ start_season = None
    /\ end_season = None
    /\ df_filtered = <<>>
    /\ today = NaT
    /\ call = NoCall
    /\ result = NoResult
    /\ shown = "nothing"

Init == raw \in RawTables /\ TypeInit

InitNormalize == raw \in OneLineTables /\ TypeInit

\* Lines 100-174: the table is read and cleaned, or the date parse raises.
Normalize ==
    /\ pc = "load"
    /\ IF DateError(raw)
       THEN /\ pc' = "failed"
            /\ result' = [kind |-> "raise", fn |-> "to_datetime", error |-> "ParseError"]
            /\ shown' = "traceback"
            /\ UNCHANGED df
       ELSE /\ pc' = "seasons"
            /\ df' = CleanTable(raw)
            /\ UNCHANGED <<result, shown>>
    /\ UNCHANGED <<raw, start_season, end_season, df_filtered, today, call>>

\* A slip: the season filter assigned back to df.
SelectSeasons_InPlace ==
    /\ pc = "seasons"
    /\ \E s \in Seasons(df), e \in Seasons(df) :
          /\ start_season' = s
          /\ end_season' = e
          /\ df' = SeasonFilter(df, s, e)
          /\ df_filtered' = SeasonFilter(df, s, e)
    /\ pc' = "today"
    /\ UNCHANGED <<raw, today, call, result, shown>>

\* Lines 176-188: both season boxes offer every season of the table.
SelectSeasons ==
    /\ pc = "seasons"
    /\ \E s \in Seasons(df), e \in Seasons(df) :
          /\ start_season' = s
          /\ end_season' = e
          /\ df_filtered' = SeasonFilter(df, s, e)
    /\ pc' = "today"
    /\ UNCHANGED <<raw, df, today, call, result, shown>>

\* Lines 273-289: the record on today's month and day.
TodayRecord ==
    /\ pc = "today"
    /\ \E t \in Todays :
          /\ today' = t
          /\ call' = [fn |-> "calculate_record_on_date", key |-> strftime_mm_dd(t),
                      opponent |-> None]
          /\ result' = calculate_record_on_date(df_filtered, strftime_mm_dd(t), None)
    /\ shown' = Rendered(result')
    /\ pc' = "day"
    /\ UNCHANGED <<raw, df, start_season, end_season, df_filtered>>

\* Lines 291-300: the record on today's weekday; today is not read afterwards.
DayRecord ==
    /\ pc = "day"
    /\ call' = [fn |-> "calculate_record_on_day", key |-> day_name(today),
                opponent |-> None]
    /\ result' = calculate_record_on_day(df_filtered, day_name(today)[1], None)
    /\ shown' = Rendered(result')
    /\ today' = NaT
    /\ pc' = "explore"
    /\ UNCHANGED <<raw, df, start_season, end_season, df_filtered>>

\* The page stops with the traceback of sorted().
SortedCrash ==
    /\ pc' = "crashed"
    /\ call' = NoCall
    /\ result' = [kind |-> "raise", fn |-> "sorted", error |-> "TypeError"]
    /\ shown' = "traceback"

\* Lines 309-338: a month, a day of it and an opponent or 'All'.
ExploreDate ==
    /\ pc = "explore"
    /\ IF SortedRaises(df_filtered)
       THEN SortedCrash
       ELSE /\ \E m \in ExploreMonths, d \in ExploreDays,
                  o \in {None} \cup UniqueOpponents(df_filtered) :
                  /\ d <= DaysInMonth(year_for_monthrange, m)
                  /\ call' = [fn |-> "calculate_record_on_date", key |-> FormatMMDD(m, d),
                              opponent |-> o]
                  /\ result' = calculate_record_on_date(df_filtered, FormatMMDD(m, d), o)
            /\ shown' = Rendered(result')
            /\ pc' = "best"
    /\ UNCHANGED <<raw, df, start_season, end_season, df_filtered, today>>

\* Lines 340-361: a weekday and an opponent or 'All'.
ExploreDay ==
    /\ pc = "explore"
    /\ IF SortedRaises(df_filtered)
       THEN SortedCrash
       ELSE /\ \E i \in 1..Len(days_order),
                  o \in {None} \cup UniqueOpponents(df_filtered) :
                  /\ call' = [fn |-> "calculate_record_on_day", key |-> <<days_order[i]>>,
                              opponent |-> o]
                  /\ result' = calculate_record_on_day(df_filtered, days_order[i], o)
            /\ shown' = Rendered(result')
            /\ pc' = "best"
    /\ UNCHANGED <<raw, df, start_season, end_season, df_filtered, today>>

\* Lines 363-402: an opponent of the filtered table (None when there is none),
\* its best and worst weekday; the block is rendered or the no-games line is.
BestWorst ==
    /\ pc = "best"
    /\ \E o \in (IF df_filtered = <<>> THEN {None} ELSE UniqueOpponents(df_filtered)) :
          /\ call' = [fn |-> "best_and_worst_day_against_opponent", key |-> None,
                      opponent |-> o]
          /\ result' \in best_and_worst_day_against_opponent(df_filtered, o)
    /\ IF result'.kind = "raise"
       THEN pc' = "crashed" /\ shown' = "traceback"
       ELSE pc' = "done" /\ shown' = Rendered(result')
    /\ UNCHANGED <<raw, df, start_season, end_season, df_filtered, today>>

\* The viewer changes a widget: the script runs again from its first line.
Rerun ==
    /\ pc \in {"done", "crashed"}
    /\ pc' = "load"
    /\ df' = <<>>
    /\ start_season' = None
    /\ end_season' = None
    /\ df_filtered' = <<>>
    /\ today' = NaT
    /\ call' = NoCall
    /\ result' = NoResult
    /\ shown' = "nothing"
    /\ UNCHANGED raw

Next ==
    \/ Normalize
    \/ SelectSeasons
    \/ TodayRecord
    \/ DayRecord
    \/ ExploreDate
    \/ ExploreDay
    \/ BestWorst
    \/ Rerun

Spec == Init /\ [][Next]_vars

\* The load alone, on one-line tables with every cell text.
SpecNormalize == InitNormalize /\ [][Normalize]_vars

(* ---------------------------- claims ----------------------------------- *)

RecordFns == {"calculate_record_on_date", "calculate_record_on_day"}
QueryFns == RecordFns \cup {"best_and_worst_day_against_opponent"}

\* The rows of the queried table that the predicate of a record call selects:
\* the key of the row is the key asked for and, when an opponent is given, the
\* opponent of the row is that opponent.  A missing cell is no key and no
\* opponent.
Selected(c) ==
    {i \in 1..Len(df_filtered) :
        /\ IF c.fn = "calculate_record_on_date"
           THEN df_filtered[i].MMDD = c.key
           ELSE df_filtered[i].DayOfWeek = c.key
        /\ c.opponent # None =>
              df_filtered[i].Opponent # NaN /\ df_filtered[i].Opponent = c.opponent}

\* The games of the queried table against an opponent, all or on one weekday.
Against(o) == {i \in 1..Len(df_filtered) : o # NaN /\ df_filtered[i].Opponent = o}
AgainstOn(o, day) == {i \in Against(o) : df_filtered[i].DayOfWeek = <<day>>}
WonAgainstOn(o, day) == {i \in AgainstOn(o, day) : df_filtered[i].Win = 1}

\* C1: the outcome of every cleaned row follows the precedence W, L, T of the
\* concatenated, trimmed letter and marker: WinOT, WinSO, Win, LossOT, LossSO,
\* Loss, Tie, else Unknown; W with L gives a Win variant, and Unknown is given
\* only when none of W, L, T occurs.
C1_OutcomePrecedence ==
    pc = "seasons" =>
        \A i \in 1..Len(df) :
            LET s == strip(fillna(raw[i].Outcome) \o fillna(raw[i].OTSO))
                W == Contains(<<"W">>, s)
                L == Contains(<<"L">>, s)
                T == Contains(<<"T">>, s)
                OT == Contains(<<"O", "T">>, s)
                SO == Contains(<<"S", "O">>, s)
                out == df[i].Outcome
            IN /\ W /\ OT => out = WinOT
               /\ W /\ ~OT /\ SO => out = WinSO
               /\ W /\ ~OT /\ ~SO => out = Win
               /\ ~W /\ L /\ OT => out = LossOT
               /\ ~W /\ L /\ ~OT /\ SO => out = LossSO
               /\ ~W /\ L /\ ~OT /\ ~SO => out = Loss
               /\ ~W /\ ~L /\ T => out = Tie
               /\ ~W /\ ~L /\ ~T => out = Unknown
               /\ W /\ L => out \in {Win, WinOT, WinSO}
               /\ out = Unknown <=> ~(W \/ L \/ T)

\* A letter cell with both W and L and an OT marker was cleaned to Win OT.
C1_Witness ==
    /\ pc = "seasons"
    /\ raw[1].Outcome = <<"W", "L">>
    /\ raw[1].OTSO = <<"O", "T">>
    /\ df[1].Outcome = WinOT

\* C2: a record call, by month-day or by weekday, returns None exactly when no
\* row of the queried table is selected by its predicate, and a summary it
\* returns is never one of zero games.
C2_AbsentIffNoRow ==
    call.fn \in RecordFns =>
        /\ result.kind = "none" <=> Selected(call) = {}
        /\ result.kind = "ok" => result.TotalGames >= 1

\* A record on a date was asked for an opponent who has games in the table, none
\* of them on that date, while another opponent played on it: None came back.
C2_Witness ==
    /\ call.fn = "calculate_record_on_date"
    /\ call.opponent \notin {None, NaN}
    /\ Against(call.opponent) # {}
    /\ \E i \in 1..Len(df_filtered) : df_filtered[i].MMDD = call.key
    /\ result.kind = "none"

\* C3: a summary counts the selected rows: TotalGames all of them, Wins those
\* with Win = 1, Losses those whose outcome is Loss, Loss OT or Loss SO, Ties
\* those whose outcome is Tie, and WinPercentage is Wins/TotalGames*100 to the
\* nearest hundredth.
C3_SummaryCounts ==
    (call.fn \in RecordFns /\ result.kind = "ok") =>
        LET R == Selected(call) IN
        /\ result.TotalGames = Cardinality(R)
        /\ result.Wins = Cardinality({i \in R : df_filtered[i].Win = 1})
        /\ result.Losses =
              Cardinality({i \in R : df_filtered[i].Outcome \in {Loss, LossOT, LossSO}})
        /\ result.Ties = Cardinality({i \in R : df_filtered[i].Outcome = Tie})
        /\ 2 * (result.WinPercentage * result.TotalGames - 10000 * result.Wins)
              <= result.TotalGames
        /\ 2 * (10000 * result.Wins - result.WinPercentage * result.TotalGames)
              <= result.TotalGames

\* Three games on 01-14, a win, a loss and a tie: 3, 1, 1, 1 and 33.33.
C3_Witness ==
    /\ call.fn = "calculate_record_on_date"
    /\ call.key = <<"0", "1", "-", "1", "4">>
    /\ {df_filtered[i].Outcome : i \in Selected(call)} = {Win, Loss, Tie}
    /\ result.kind = "ok"
    /\ result.TotalGames = 3
    /\ result.Wins = 1
    /\ result.Losses = 1
    /\ result.Ties = 1
    /\ result.WinPercentage = 3333

C6_PerDayTable ==
    (call.fn = "best_and_worst_day_against_opponent" /\ Against(call.opponent) # {}) =>
        /\ result.kind = "ok"
        /\ LET o == call.opponent
               t == result.table
               Position(day) == CHOOSE k \in 1..Len(days_order) : days_order[k] = day
           IN /\ {t[n].DayOfWeek : n \in 1..Len(t)} =
                    {days_order[k] : k \in {j \in 1..Len(days_order) :
                                               AgainstOn(o, days_order[j]) # {}}}
              /\ \A m, n \in 1..Len(t) :
                    m < n => Position(t[m].DayOfWeek) < Position(t[n].DayOfWeek)
              /\ \A n \in 1..Len(t) :
                    /\ t[n].games_played = Cardinality(AgainstOn(o, t[n].DayOfWeek))
                    /\ t[n].wins = Cardinality(WonAgainstOn(o, t[n].DayOfWeek))

\* C7: once the table is cleaned, no step of a page run changes it: season
\* selection and the queries leave every record of df as it is.
C7_TableNeverChanged == [][(pc # "load" /\ pc' # "load") => df' = df]_vars

\* A page run ended with a season range that leaves out games, and the cleaned
\* table still holds every game.
C7_Witness ==
    /\ pc = "done"
    /\ Len(df_filtered) < Len(df)
    /\ Len(df) = Len(raw)
    /\ call.fn = "best_and_worst_day_against_opponent"

\* C8: every record of the cleaned table has a date, an opponent and an
\* outcome, whatever cells the raw rows miss.
C8_NonNull ==
    pc = "seasons" =>
        \A i \in 1..Len(df) :
            df[i].Date # NaT /\ df[i].Opponent # NaN /\ df[i].Outcome # NaN

\* C9: no query raises; a table or a best/worst block is rendered only for a
\* result with at least one game; and a query that matched no row is answered
\* with the no-games line.
C9_CheckedBeforeRendering ==
    /\ result.kind = "raise" => result.fn \notin QueryFns
    /\ (call.fn \in RecordFns /\ shown = "table") =>
          result.kind = "ok" /\ result.TotalGames >= 1
    /\ (call.fn = "best_and_worst_day_against_opponent" /\ shown = "table") =>
          result.kind = "ok" /\ result.best.games_played >= 1
    /\ (call.fn \in RecordFns /\ Selected(call) = {}) => shown = "message"
    /\ (call.fn = "best_and_worst_day_against_opponent" /\ Against(call.opponent) = {}) =>
          shown = "message"

\* C10: in a summary Wins + Losses + Ties is TotalGames less the selected rows
\* whose outcome is Unknown, and no selected row is counted twice.
C10_CountsPartition ==
    (call.fn \in RecordFns /\ result.kind = "ok") =>
        LET R == Selected(call)
            Unknowns == {i \in R : df_filtered[i].Outcome = Unknown}
        IN /\ result.Wins + result.Losses + result.Ties =
                 result.TotalGames - Cardinality(Unknowns)
           /\ result.Wins + result.Losses + result.Ties <= result.TotalGames
           /\ result.Wins + result.Losses + result.Ties = result.TotalGames
                 <=> Unknowns = {}
           /\ \A i \in R :
                 LET won == df_filtered[i].Win = 1
                     lost == Contains(Loss, df_filtered[i].Outcome)
                     tied == df_filtered[i].Outcome = Tie
                 IN ~(won /\ lost) /\ ~(won /\ tied) /\ ~(lost /\ tied)

\* A summary over a win, a loss and a game with no result: the three
\* counts add up to one less than the games.
C10_Witness ==
    /\ call.fn \in RecordFns
    /\ result.kind = "ok"
    /\ \E i \in Selected(call) : df_filtered[i].Outcome = Unknown
    /\ \E i \in Selected(call) : df_filtered[i].Outcome = Win
    /\ \E i \in Selected(call) : df_filtered[i].Outcome = Loss
    /\ result.Wins + result.Losses + result.Ties = result.TotalGames - 1

====
